---- MODULE Spec2Model ----
(***************************************************************************)
(* captain-hook: the handler registry and dispatch engine of               *)
(* src/src/captain-hook.js (the module the tests import), as a state       *)
(* machine.                                                                *)
(*                                                                         *)
(* JavaScript values are modelled as strings: an object by its name, the   *)
(* value undefined by Undefined, null by Null.  Priorities are integers.   *)
(* An options argument is a function whose domain is the set of option     *)
(* names the caller supplied.                                              *)
(*                                                                         *)
(* A dispatch is not atomic: it calls handlers, and a handler may call     *)
(* back into the emitter.  The variable stack holds one frame per running  *)
(* dispatch; the frame on top is either between two handler invocations    *)
(* (pc = "loop") or inside the handler it invoked (pc = "call").           *)
(***************************************************************************)
EXTENDS Integers, Sequences, FiniteSets, TLC

\* ------------------------------------------------------------------ bounds

\* register calls made in one run
MaxRegs == 3
\* dispatch calls made in one run, nested ones included
MaxEmits == 2

\* ------------------------------------------------------------------ values

Undefined == "undefined"
Null == "null"

\* The objects of a run.  P carries capability c1 and is the prototype of
\* i1 and i2 (Object.create(P), or instances of a class whose prototype was
\* assigned the capability); h carries capability c2 as own properties and
\* is unrelated to the others.
Objects == {"P", "i1", "i2", "h"}
NoObject == "none"
Caps == {"c1", "c2"}

Proto(o) == IF o \in {"i1", "i2"} THEN "P" ELSE NoObject

\* the factory invocation whose operations o finds under the configured names
CapOf(o) == IF o = "h" THEN "c2" ELSE "c1"

\* An explicit context object that is not a host.
CtxObj == "contextobj"

\* The event names and handler functions of a run; a handler returns a
\* value of its own.
Events == {"some_event"}
Callables == {"fa", "fb"}
Ret(f) == IF f = "fa" THEN "a" ELSE "b"

\* typeof callable === 'function'; the register operation takes whatever it
\* is given (undefined when the argument is left out)
IsFunction(callable) == callable \in Callables

\* The store and privatehandlers are object literals, so handlers[eventname]
\* reads a member of Object.prototype when eventname is the name of one and
\* the store has no list of that name: for 'constructor' the function
\* Object, which is truthy, has length 1 and neither push nor forEach.
InheritedNames == {"constructor"}

NoOptions == [k \in {} |-> Undefined]

\* the options argument null (the default {} stands in for undefined only),
\* written as a record of its own
NullOptions == [null |-> TRUE]
IsNull(options) == "null" \in DOMAIN options

\* JavaScript truthiness of a value modelled as a string (!x is ~Truthy(x))
Truthy(v) == v \notin {Undefined, Null, ""}

\* options.<name>: undefined when the option is not supplied
Opt(options, name) == IF name \in DOMAIN options THEN options[name] ELSE Undefined

\* ------------------------------------------------------------------- state

VARIABLES
  handlers_prop,  \* per factory invocation: the storage specifier (config.handlers_prop)
  storage,        \* per object and per factory invocation: the handler store held there
  stack,          \* the running dispatches, innermost last
  result,         \* what the last finished dispatch gave its caller
  nregs,          \* register calls made so far
  nemits,         \* dispatch calls made so far
  ncalls,         \* per record (by registration number): how often it was invoked
  last,           \* the step taken last, with the stores it started from
  on_slot,        \* per object: the function that this[on_prop] finds
  held            \* the options object the caller keeps and passes to several calls

vars == <<handlers_prop, storage, stack, result, nregs, nemits, ncalls, last, on_slot,
          held>>

\* A store location: this[handlersPropName] of an object, or the
\* privatehandlers of a factory invocation.
Locs == Objects \cup Caps
NoLoc == "none"

NoStore == [exists |-> FALSE, lists |-> <<>>]
EmptyStore == [exists |-> TRUE, lists |-> <<>>]

\* lists is a function from the event names that have a list to the list;
\* the empty function is written << >>.
HasList(st, eventname) == eventname \in DOMAIN st.lists

\* handlers[eventname] is truthy: a list, or an inherited member
ReadsTruthy(st, eventname) == HasList(st, eventname) \/ eventname \in InheritedNames

\* ------------------------------------------------------------- pure helpers

SortByPriority_NoSort(list) == list

\* a sort that places a record before the records of equal priority
RECURSIVE Insert_BeforeEqual(_, _)
Insert_BeforeEqual(sorted, h) ==
  IF sorted = <<>> THEN <<h>>
  ELSE IF Head(sorted).priority > h.priority
       THEN <<Head(sorted)>> \o Insert_BeforeEqual(Tail(sorted), h)
       ELSE <<h>> \o sorted

\* Array.prototype.sort with comparator (a, b) => b.priority - a.priority:
\* a stable sort, descending by priority.  Insert places a record behind
\* every record of equal or higher priority, so equal records keep their
\* order.
RECURSIVE Insert(_, _)
Insert(sorted, h) ==
  IF sorted = <<>> THEN <<h>>
  ELSE IF Head(sorted).priority >= h.priority
       THEN <<Head(sorted)>> \o Insert(Tail(sorted), h)
       ELSE <<h>> \o sorted

RECURSIVE SortByPriority(_)
SortByPriority(list) ==
  IF list = <<>> THEN <<>>
  ELSE Insert(SortByPriority(SubSeq(list, 1, Len(list) - 1)), list[Len(list)])

\* Array.prototype.splice(i, 1) for the 1-based position i
Splice(list, i) == SubSeq(list, 1, i - 1) \o SubSeq(list, i + 1, Len(list))

\* this[handlersPropName]: the object on the prototype chain of o that holds
\* the property, NoLoc when none does (the read gives undefined)
RECURSIVE Lookup(_, _)
Lookup(st, o) ==
  IF o = NoObject THEN NoLoc
  ELSE IF st[o].exists THEN o
  ELSE Lookup(st, Proto(o))

\* the default taken only when no priority is supplied (options.priority ?? 10)
HandlerPriority_Nullish(options) ==
  IF "priority" \in DOMAIN options THEN options.priority ELSE 10

\* the handler record built by the register operation
HandlerPriority(options) ==
  IF "priority" \in DOMAIN options /\ options.priority # 0
  THEN options.priority ELSE 10

HandlerContext(options, this) ==
  IF Truthy(Opt(options, "context")) THEN options.context ELSE this

HandlerOnce(options) ==
  IF "once" \in DOMAIN options /\ options.once THEN options.once ELSE FALSE

Handler(id, this, callable, options) ==
  [ id |-> id,
    callable |-> callable,
    tag |-> Opt(options, "tag"),
    priority |-> HandlerPriority(options),
    context |-> HandlerContext(options, this),
    once |-> HandlerOnce(options),
    \* not fields of the program's record: who registered it and with what
    by |-> this,
    options |-> options ]

NoHandler == Handler(0, NoObject, "none", NoOptions)

\* ------------------------------------------------------------------ frames

Top == stack[Len(stack)]

\* The program is between two calls of the emitter's user: at the top level,
\* or inside a handler that a dispatch is invoking.
CanCall == IF Len(stack) = 0 THEN TRUE
           ELSE Top.pc = "call" /\ IsFunction(Top.cur.callable)

\* the list a running dispatch iterates: handlers[eventname] of the store it
\* resolved when it was called
ListIn(st, frame) == st[frame.loc].lists[frame.eventname]
ListOf(frame) == ListIn(storage, frame)

\* Bookkeeping on the running dispatches when the emitter is called: the
\* handlers that are being invoked are no longer quiet (they, or a handler
\* of a dispatch they started, called the emitter), and a dispatch whose
\* list loses a record has shrunk.  newStorage is the storage the call leaves.
Noted(stk, newStorage) ==
  IF Len(stk) = 0 THEN <<>>
  ELSE [k \in 1..Len(stk) |->
         [stk[k] EXCEPT
            !.calls = IF stk[k].pc = "call"
                      THEN [@ EXCEPT ![Len(@)].quiet = FALSE] ELSE @,
            !.shrunk = @ \/ Len(ListIn(newStorage, stk[k])) < Len(ListOf(stk[k]))]]

\* no handler of the dispatch has called the emitter
Flat(frame) == \A k \in 1..Len(frame.calls) : frame.calls[k].quiet

\* depth is the number of dispatches running when the step began; raised
\* tells that the step was a call of the emitter that threw a TypeError of
\* its own (a property read of undefined)
Step(op, this, eventname, tag) ==
  [op |-> op, this |-> this, eventname |-> eventname, tag |-> tag, before |-> storage,
   depth |-> Len(stack), raised |-> FALSE]

\* ------------------------------------------------------- storage selection

IsPublic_Always(this) == TRUE

\* if (handlersPropName) ... else handlers = privatehandlers
IsPublic(this) == Truthy(handlers_prop[CapOf(this)])

\* privatehandlers as one variable of the module instead of one per
\* factory invocation
RegisterLoc_ModuleWide(this) ==
  IF Truthy(handlers_prop[CapOf(this)])
  THEN IF Lookup(storage, this) = NoLoc THEN this ELSE Lookup(storage, this)
  ELSE "c1"

\* the private store kept per receiver
RegisterLoc_PerReceiver(this) ==
  IF Truthy(handlers_prop[CapOf(this)])
  THEN IF Lookup(storage, this) = NoLoc THEN this ELSE Lookup(storage, this)
  ELSE this

\* the store the register operation uses, created on the receiver when
\* this[handlersPropName] reads falsy
RegisterLoc(this) ==
  IF IsPublic(this)
  THEN IF Lookup(storage, this) = NoLoc THEN this ELSE Lookup(storage, this)
  ELSE CapOf(this)

\* the store deregister and dispatch use; NoLoc when it reads undefined
ActiveLoc(this) ==
  IF IsPublic(this) THEN Lookup(storage, this)
  ELSE IF storage[CapOf(this)].exists THEN CapOf(this) ELSE NoLoc

\* ------------------------------------------------------------------- Init

\* CaptainHook(config), once per capability: privatehandlers = {} when
\* handlers_prop == null
InitWith(configs) ==
  /\ handlers_prop \in configs
  /\ storage = [l \in Locs |->
                 IF l \in Caps /\ handlers_prop[l] = Null THEN EmptyStore ELSE NoStore]
  /\ stack = <<>>
  /\ result = [status |-> "none", retvals |-> <<>>]
  /\ nregs = 0
  /\ nemits = 0
  /\ ncalls = [id \in 1..MaxRegs |-> 0]
  /\ last = [op |-> "none", this |-> NoObject, eventname |-> "none",
             tag |-> Undefined, before |-> storage, depth |-> 0, raised |-> FALSE]
  /\ on_slot = [o \in Objects |-> "AddEventHandler"]
  /\ held = NoOptions

\* ----------------------------------------------------------------- factory

\* CaptainHook(config): config is a function from the five configuration
\* names to the value given, Undefined when the name is left out; a
\* destructuring default stands in for undefined only.
OpProps == <<"on_prop", "once_prop", "off_prop", "emit_prop">>
Operation(prop) ==
  CASE prop = "on_prop" -> "AddEventHandler"
    [] prop = "once_prop" -> "AddOneTimeEventHandler"
    [] prop = "off_prop" -> "RemoveEventHandler"
    [] prop = "emit_prop" -> "EmitEvent"

Default(prop) ==
  CASE prop = "on_prop" -> "on"
    [] prop = "once_prop" -> "once"
    [] prop = "off_prop" -> "off"
    [] prop = "emit_prop" -> "_emit"
    [] prop = "handlers_prop" -> "_handlers"

Configured(config, prop) ==
  IF config[prop] = Undefined THEN Default(prop) ELSE config[prop]

\* the store created as a property when the object is made
CapabilityObject_WithStore(config) ==
  LET names == {Configured(config, OpProps[k]) : k \in 1..4} \cup {"_handlers"}
  IN [name \in names |-> IF name = "_handlers" THEN "{}" ELSE "method"]

\* The object literal the factory returns, as a function from the names of
\* its own properties to the operation held there: four computed keys in
\* the order on, once, off, emit, a later key replacing an equal earlier one.
CapabilityObject(config) ==
  LET names == {Configured(config, OpProps[k]) : k \in 1..4}
      LastAt(name) == CHOOSE k \in 1..4 :
                        /\ Configured(config, OpProps[k]) = name
                        /\ \A m \in 1..4 : Configured(config, OpProps[m]) = name => m <= k
  IN [name \in names |-> Operation(OpProps[LastAt(name)])]

\* The factory called anew for capability cap, before any call is made
\* through it.
CaptainHook(cap, config) ==
  /\ Len(stack) = 0
  /\ nregs = 0
  /\ handlers_prop' = [handlers_prop EXCEPT ![cap] = Configured(config, "handlers_prop")]
  /\ storage' = [storage EXCEPT ![cap] =
                   IF Configured(config, "handlers_prop") = Null
                   THEN EmptyStore ELSE NoStore]
  /\ last' = [config |-> config, object |-> CapabilityObject(config)]
              @@ Step("CaptainHook", cap, "none", Undefined)
  /\ UNCHANGED <<stack, result, nregs, nemits, ncalls, on_slot, held>>

\* -------------------------------------------------------------- operations

\* [on_prop](eventname, callable, options)
Pushed(list, handler) == Append(list, handler)

\* handlers is undefined in the register operation: handlersPropName is
\* falsy and privatehandlers was not created (handlers_prop is '' and the
\* like, which is falsy and not == null)
NoPrivateStore(this) == ~IsPublic(this) /\ ~storage[CapOf(this)].exists

\* The register operation throws a TypeError: options.tag with options
\* null (line 91), handlers[eventname] with handlers undefined (line 106),
\* handlers[eventname].push with the inherited member (line 109).
OnRaises(this, eventname, options) ==
  \/ IsNull(options)
  \/ NoPrivateStore(this)
  \/ eventname \in InheritedNames

\* what the register operation has done when it throws: with public
\* storage the store is created (line 100) before lines 106-109 are reached
OnRaisedStorage(this, eventname, options) ==
  IF ~IsNull(options) /\ IsPublic(this) /\ Lookup(storage, this) = NoLoc
  THEN [storage EXCEPT ![this] = EmptyStore]
  ELSE storage

Register(this, eventname, callable, options) ==
  /\ CanCall
  /\ nregs < MaxRegs
  /\ LET handler == Handler(nregs + 1, this, callable, options)
         loc == RegisterLoc(this)
         st == IF storage[loc].exists THEN storage[loc] ELSE EmptyStore
         list == IF HasList(st, eventname)
                 THEN Pushed(st.lists[eventname], handler)
                 ELSE <<handler>>
         newStorage ==
           IF OnRaises(this, eventname, options)
           THEN OnRaisedStorage(this, eventname, options)
           ELSE [storage EXCEPT ![loc] =
                   [exists |-> TRUE,
                    lists |-> (eventname :> SortByPriority(list)) @@ st.lists]]
     IN /\ storage' = newStorage
        /\ stack' = Noted(stack, newStorage)
  /\ nregs' = nregs + 1
  /\ last' = [Step("on", this, eventname, Opt(options, "tag")) EXCEPT
                !.raised = OnRaises(this, eventname, options)]
  /\ UNCHANGED <<handlers_prop, on_slot, result, nemits, ncalls>>

\* the register operation called with an options object that it reads and
\* does not write
On(this, eventname, callable, options) ==
  /\ Register(this, eventname, callable, options)
  /\ UNCHANGED held

\* a supplied once option kept as it is
OnceOptions_KeepSupplied(options) == options @@ ("once" :> TRUE)

\* [once_prop](eventname, callable, options): opts.once = true, then
\* this[on_prop](eventname, callable, opts)
OnceOptions(options) == ("once" :> TRUE) @@ options

\* this[on_prop] is a function of the host's, not the register operation:
\* the call of line 124 runs that function, which is handed the event, the
\* handler and opts and leaves the stores alone
Delegated(this, eventname, callable, opts) ==
  /\ CanCall
  /\ nregs < MaxRegs
  /\ nregs' = nregs + 1
  /\ stack' = Noted(stack, storage)
  /\ last' = [callable |-> callable, options |-> opts]
              @@ Step(on_slot[this], this, eventname, Opt(opts, "tag"))
  /\ UNCHANGED <<handlers_prop, on_slot, storage, result, nemits, ncalls>>

\* register-once pushing the record itself, whatever this[on_prop] is
Once_Direct(this, eventname, callable, options) ==
  On(this, eventname, callable, OnceOptions(options))

\* register-once called with an options object made for this call (a
\* literal, or the default {}), which nothing reads afterwards
Once(this, eventname, callable, options) ==
  /\ IF on_slot[this] = "AddEventHandler"
     THEN Register(this, eventname, callable, OnceOptions(options))
     ELSE Delegated(this, eventname, callable, OnceOptions(options))
  /\ UNCHANGED held

\* the once flag set on a copy of the options
OnceWritten_Copy(options) == options

\* const opts = options; opts.once = true: the object the caller passed is
\* the one written
OnceWritten(options) == OnceOptions(options)

\* register-once called with the options object the caller keeps
OnceHeld(this, eventname, callable) ==
  /\ IF on_slot[this] = "AddEventHandler"
     THEN Register(this, eventname, callable, OnceOptions(held))
     ELSE Delegated(this, eventname, callable, OnceOptions(held))
  /\ held' = OnceWritten(held)

\* the register operation called with the options object the caller keeps
OnHeld(this, eventname, callable) == On(this, eventname, callable, held)

\* the caller makes the options object it is going to keep, before it
\* calls the emitter
Hold(options) ==
  /\ nregs = 0
  /\ nemits = 0
  /\ held # options
  /\ held' = options
  /\ last' = Step("hold", NoObject, "none", Undefined)
  /\ UNCHANGED <<handlers_prop, on_slot, storage, stack, result, nregs, nemits, ncalls>>

\* the host assigns this[on_prop] = f: a function of its own, or the
\* register operation again
AssignOn(this, f) ==
  /\ CanCall
  /\ on_slot[this] # f
  /\ on_slot' = [on_slot EXCEPT ![this] = f]
  /\ stack' = Noted(stack, storage)
  /\ last' = Step("assign", this, "none", Undefined)
  /\ UNCHANGED <<handlers_prop, storage, result, nregs, nemits, ncalls, held>>

FindTag_Last(eventhandlers, tag, i) ==
  LET matches == {k \in i..Len(eventhandlers) : eventhandlers[k].tag = tag}
  IN IF matches = {} THEN 0
     ELSE CHOOSE k \in matches : \A m \in matches : m <= k

\* the last position when no record carries the tag, as splice(-1, 1) takes
FindTag_OrLast(eventhandlers, tag, i) ==
  LET matches == {k \in i..Len(eventhandlers) : eventhandlers[k].tag = tag}
  IN IF matches = {} THEN Len(eventhandlers)
     ELSE CHOOSE k \in matches : \A m \in matches : k <= m

\* [off_prop](eventname, tag): the 1-based position of the first record whose
\* tag is the given one, 0 when there is none
RECURSIVE FindTag(_, _, _)
FindTag(eventhandlers, tag, i) ==
  IF i > Len(eventhandlers) THEN 0
  ELSE IF eventhandlers[i].tag = tag THEN i
  ELSE FindTag(eventhandlers, tag, i + 1)

\* the tag not looked at before the list is searched
OffNothingToDo_TagNotChecked(this, eventname, tag) ==
  \/ ActiveLoc(this) = NoLoc
  \/ ~HasList(storage[ActiveLoc(this)], eventname)

\* if (!tag || !handlers || !handlers[eventname]) return;
OffNothingToDo(this, eventname, tag) ==
  \/ ~Truthy(tag)
  \/ ActiveLoc(this) = NoLoc
  \/ ~ReadsTruthy(storage[ActiveLoc(this)], eventname)

\* handlers[eventname] throws a TypeError when the call gets there with
\* handlers undefined, and eventhandler.tag when what was read is not a list
\* (eventhandlers[0] is undefined)
OffRaises(this, eventname, tag) ==
  /\ ~OffNothingToDo(this, eventname, tag)
  /\ (ActiveLoc(this) = NoLoc \/ ~HasList(storage[ActiveLoc(this)], eventname))

Off(this, eventname, tag) ==
  /\ CanCall
  /\ LET loc == ActiveLoc(this)
         eventhandlers == storage[loc].lists[eventname]
         i == FindTag(eventhandlers, tag, 1)
         newStorage ==
           IF OffNothingToDo(this, eventname, tag) THEN storage
           ELSE IF OffRaises(this, eventname, tag) THEN storage
           ELSE IF i = 0 THEN storage
           ELSE [storage EXCEPT ![loc].lists[eventname] = Splice(eventhandlers, i)]
     IN /\ storage' = newStorage
        /\ stack' = Noted(stack, newStorage)
  /\ last' = [Step("off", this, eventname, tag) EXCEPT
                !.raised = OffRaises(this, eventname, tag)]
  /\ UNCHANGED <<handlers_prop, on_slot, held, result, nregs, nemits, ncalls>>

\* [emit_prop](eventname, ...args), up to the first handler invocation:
\* if (!handlers || !handlers[eventname]) return retvals;
EmitNothingToDo(this, eventname) ==
  \/ ActiveLoc(this) = NoLoc
  \/ ~ReadsTruthy(storage[ActiveLoc(this)], eventname)

\* handlers[eventname].forEach throws a TypeError when the call gets there
\* with handlers undefined or with something that is not a list
EmitRaises(this, eventname) ==
  /\ ~EmitNothingToDo(this, eventname)
  /\ (ActiveLoc(this) = NoLoc \/ ~HasList(storage[ActiveLoc(this)], eventname))

Emit(this, eventname, args) ==
  /\ CanCall
  /\ nemits < MaxEmits
  /\ nemits' = nemits + 1
  /\ IF EmitNothingToDo(this, eventname)
     THEN /\ result' = [status |-> "returned", retvals |-> <<>>]
          /\ stack' = Noted(stack, storage)
     ELSE IF EmitRaises(this, eventname)
     THEN /\ result' = [status |-> "threw", retvals |-> <<>>]
          /\ stack' = Noted(stack, storage)
     ELSE /\ stack' = Append(Noted(stack, storage),
                 [this |-> this, loc |-> ActiveLoc(this), eventname |-> eventname,
                  args |-> args, i |-> 0,
                  len |-> Len(storage[ActiveLoc(this)].lists[eventname]),
                  retvals |-> <<>>, pc |-> "loop", cur |-> NoHandler,
                  calls |-> <<>>, shrunk |-> FALSE,
                  start |-> storage[ActiveLoc(this)].lists[eventname]])
          /\ UNCHANGED result
  /\ last' = [Step("emit", this, eventname, Undefined) EXCEPT
                !.raised = EmitRaises(this, eventname)]
  /\ UNCHANGED <<handlers_prop, on_slot, held, storage, nregs, ncalls>>

\* forEach stopping one position early
LoopDone_Early(frame) == frame.i + 1 >= frame.len \/ frame.i >= Len(ListOf(frame))

\* forEach visits the positions below the length the list had when forEach
\* was called, and only those the list still has.
LoopDone(frame) == frame.i >= frame.len \/ frame.i >= Len(ListOf(frame))

CallThis_Emitter(eventhandler, frame) == frame.this

\* the values returned so far handed to the next handler
CallArgs_WithResults(eventhandler, frame) == Append(frame.args, frame.retvals)
CallArgs_NoSpread(eventhandler, frame) == <<frame.args>>

\* eventhandler.callable.call(eventhandler.context, ...args)
CallThis(eventhandler, frame) == eventhandler.context
CallArgs(eventhandler, frame) == frame.args

Invoke ==
  /\ Len(stack) > 0
  /\ Top.pc = "loop"
  /\ ~LoopDone(Top)
  /\ LET eventhandler == ListOf(Top)[Top.i + 1]
     IN /\ stack' = [stack EXCEPT ![Len(stack)] =
                       [@ EXCEPT !.pc = "call", !.cur = eventhandler,
                                 !.calls = Append(@, [handler |-> eventhandler,
                                                      this |-> CallThis(eventhandler, Top),
                                                      args |-> CallArgs(eventhandler, Top),
                                                      quiet |-> TRUE])]]
        /\ ncalls' = [ncalls EXCEPT ![eventhandler.id] = @ + 1]
  /\ last' = Step("invoke", Top.this, Top.eventname, Undefined)
  /\ UNCHANGED <<handlers_prop, on_slot, held, storage, result, nregs, nemits>>

Collected_Unshift(retvals, value) == <<value>> \o retvals

\* the handler returns: retvals.push(...), and forEach goes on
Collected(retvals, value) == Append(retvals, value)

Returned(value) ==
  /\ Len(stack) > 0
  /\ Top.pc = "call"
  /\ IsFunction(Top.cur.callable)
  /\ stack' = [stack EXCEPT ![Len(stack)] =
                 [@ EXCEPT !.pc = "loop", !.cur = NoHandler, !.i = @ + 1,
                           !.retvals = Collected(@, value)]]
  /\ last' = Step("return", Top.this, Top.eventname, Undefined)
  /\ UNCHANGED <<handlers_prop, on_slot, held, storage, result, nregs, nemits, ncalls>>

\* a handler that returns the value of its own
HandlerReturn ==
  /\ Len(stack) > 0
  /\ Returned(Ret(Top.cur.callable))

\* every record removed after a dispatch
RemoveOnce_All(list, i) == <<>>

\* the cleanup removing the records that carry the tag of a one-time record
RemoveOnce_ByTag(list, i) ==
  LET tags == {list[k].tag : k \in {j \in 1..Len(list) : list[j].once}}
  IN SelectSeq(list, LAMBDA h : h.tag \notin tags)

\* the cleanup as a loop from the first position up, which steps over the
\* record that follows a removed one
RemoveOnce_Forward(list, i) ==
  LET RECURSIVE Forward(_, _)
      Forward(l, k) ==
        IF k > Len(l) THEN l
        ELSE Forward(IF l[k].once THEN Splice(l, k) ELSE l, k + 1)
  IN Forward(list, 1)

\* remove one-time event handlers, from the last position down
RECURSIVE RemoveOnce(_, _)
RemoveOnce(list, i) ==
  IF i < 1 THEN list
  ELSE RemoveOnce(IF list[i].once THEN Splice(list, i) ELSE list, i - 1)

\* the cleanup run although the handler threw, as in a finally block
HandlerThrow_Finally ==
  /\ Len(stack) > 0
  /\ Top.pc = "call"
  /\ storage' = [storage EXCEPT ![Top.loc].lists[Top.eventname] = RemoveOnce(@, Len(@))]
  /\ stack' = SubSeq(stack, 1, Len(stack) - 1)
  /\ result' = [status |-> "threw", retvals |-> <<>>]
  /\ last' = Step("throw", Top.this, Top.eventname, Undefined)
  /\ UNCHANGED <<handlers_prop, on_slot, held, nregs, nemits, ncalls>>

\* the handler throws, or callable.call throws a TypeError because callable
\* is not a function: nothing catches it in the dispatch, which ends there;
\* the caller of the dispatch goes on (a handler that does not catch it
\* throws in turn)
HandlerThrow ==
  /\ Len(stack) > 0
  /\ Top.pc = "call"
  /\ stack' = SubSeq(stack, 1, Len(stack) - 1)
  /\ result' = [status |-> "threw", retvals |-> <<>>]
  /\ last' = Step("throw", Top.this, Top.eventname, Undefined)
  /\ UNCHANGED <<handlers_prop, on_slot, held, storage, nregs, nemits, ncalls>>

\* the cleanup run on every list of the store
Cleaned_AllEvents(st, loc, eventname) ==
  [st EXCEPT ![loc].lists =
     [e \in DOMAIN @ |-> RemoveOnce(@[e], Len(@[e]))]]

\* the stores after the cleanup of handlers[eventname] in the store at loc
Cleaned(st, loc, eventname) ==
  [st EXCEPT ![loc].lists[eventname] = RemoveOnce(@, Len(@))]

\* the rest of [emit_prop]: the cleanup and return retvals
EmitReturn ==
  /\ Len(stack) > 0
  /\ Top.pc = "loop"
  /\ LoopDone(Top)
  /\ LET newStorage == Cleaned(storage, Top.loc, Top.eventname)
         rest == SubSeq(stack, 1, Len(stack) - 1)
     IN /\ storage' = newStorage
        /\ stack' = Noted(rest, newStorage)
  /\ result' = [status |-> "returned", retvals |-> Top.retvals]
  /\ last' = Step("emitreturn", Top.this, Top.eventname, Undefined)
  /\ UNCHANGED <<handlers_prop, on_slot, held, nregs, nemits, ncalls>>

\* -------------------------------------------------------- specifications

\* Each specification lets the users of the emitter (the top-level program
\* and the handlers) make their calls with inputs from small sets.
PublicOnly == [Caps -> {"_handlers"}]
EitherStore == [Caps -> {"_handlers", Null}]
Event == "some_event"

\* Spec: one host, every kind of priority, tagged and untagged records.
PriorityOptions ==
  { p @@ t : p \in {[priority |-> n] : n \in {0, 5, 20}},
             t \in {NoOptions, [tag |-> "t"]} }

Init == InitWith(PublicOnly)

Next ==
  \/ \E options \in PriorityOptions : On("h", Event, "fa", options)
  \/ Once("h", Event, "fb", NoOptions)
  \/ Off("h", Event, "t")
  \/ Emit("h", Event, <<>>)
  \/ Invoke
  \/ HandlerReturn
  \/ HandlerThrow
  \/ EmitReturn

Spec == Init /\ [][Next]_vars

\* SpecReturning: the same host with handlers that always return.
NextReturning ==
  \/ \E options \in {NoOptions, [priority |-> 20]} : On("h", Event, "fa", options)
  \/ \E options \in {NoOptions, [priority |-> 20]} : Once("h", Event, "fb", options)
  \/ Off("h", Event, "t")
  \/ Emit("h", Event, <<>>)
  \/ Invoke
  \/ HandlerReturn
  \/ EmitReturn

SpecReturning == Init /\ [][NextReturning]_vars

\* SpecTags: one host; records without a tag, with the empty tag and with
\* the same tag.
TagOptions == {NoOptions, [tag |-> ""], [tag |-> "t"], [tag |-> "t", priority |-> 20]}

NextTags ==
  \/ \E options \in TagOptions : On("h", Event, "fa", options)
  \/ Once("h", Event, "fb", [tag |-> "t"])
  \/ \E tag \in {"", "t"} : Off("h", Event, tag)
  \/ Emit("h", Event, <<>>)
  \/ Invoke
  \/ HandlerReturn
  \/ HandlerThrow
  \/ EmitReturn

SpecTags == Init /\ [][NextTags]_vars

\* SpecArgs: one host; dispatches with different arguments.
ArgLists == {<<>>, <<"x", "y">>, <<"y", "x">>}

NextArgs ==
  \/ \E options \in {NoOptions, [priority |-> 20]} : On("h", Event, "fa", options)
  \/ Once("h", Event, "fb", NoOptions)
  \/ Off("h", Event, "t")
  \/ \E args \in ArgLists : Emit("h", Event, args)
  \/ Invoke
  \/ HandlerReturn
  \/ HandlerThrow
  \/ EmitReturn

SpecArgs == Init /\ [][NextArgs]_vars

\* SpecContext: two instances that share one capability with private
\* storage; records with and without an explicit context.
ContextOptions == {NoOptions, [context |-> Null], [context |-> CtxObj]}

InitContext == InitWith({c \in EitherStore : c["c1"] = Null /\ c["c2"] = "_handlers"})

NextContext ==
  \/ \E options \in ContextOptions : On("i1", Event, "fa", options)
  \/ Once("i2", Event, "fb", [tag |-> "t"])
  \/ Off("i1", Event, "t")
  \/ \E this \in {"i1", "i2"} : Emit(this, Event, <<>>)
  \/ Invoke
  \/ HandlerReturn
  \/ HandlerThrow
  \/ EmitReturn

SpecContext == InitContext /\ [][NextContext]_vars

\* SpecShared: two instances that share one capability with private
\* storage.
NextShared ==
  \/ \E this \in {"i1", "i2"}, options \in {[priority |-> 5], [priority |-> 20]} :
       On(this, Event, "fa", options)
  \/ Once("i1", Event, "fb", [tag |-> "t"])
  \/ Off("i2", Event, "t")
  \/ \E this \in {"i1", "i2"} : Emit(this, Event, <<>>)
  \/ Invoke
  \/ HandlerReturn
  \/ HandlerThrow
  \/ EmitReturn

SpecShared == InitContext /\ [][NextShared]_vars

\* SpecProto: a prototype that carries one capability with public storage,
\* and two instances of it; each of the three makes calls.
Sharers == {"P", "i1", "i2"}

NextProto ==
  \/ \E this \in Sharers : On(this, Event, "fa", NoOptions)
  \/ Once("i1", Event, "fb", [tag |-> "t"])
  \/ Off("i2", Event, "t")
  \/ \E this \in Sharers : Emit(this, Event, <<>>)
  \/ Invoke
  \/ HandlerReturn
  \/ HandlerThrow
  \/ EmitReturn

SpecProto == Init /\ [][NextProto]_vars

\* SpecHosts: two hosts that are not on each other's prototype chain, each
\* with a capability of its own, under every combination of the storage
\* policies.
Hosts == {"i1", "h"}

InitHosts == InitWith(EitherStore)

NextHosts ==
  \/ \E this \in Hosts : On(this, Event, "fa", NoOptions)
  \/ Once("h", Event, "fb", [tag |-> "t"])
  \/ \E this \in Hosts : Off(this, Event, "t")
  \/ \E this \in Hosts : Emit(this, Event, <<>>)
  \/ Invoke
  \/ HandlerReturn
  \/ HandlerThrow
  \/ EmitReturn

SpecHosts == InitHosts /\ [][NextHosts]_vars

\* SpecEvents: one host with public or private storage and two event
\* names; records without a tag and with two different tags, deregister
\* calls with and without a tag.
TwoEvents == {"some_event", "other_event"}

InitEvents == InitWith({c \in EitherStore : c["c1"] = "_handlers"})

OnCalls == {<<Event, NoOptions>>, <<Event, [tag |-> "u"]>>, <<"other_event", NoOptions>>}
OffCalls == {<<Event, Undefined>>, <<Event, "t">>, <<Event, "u">>, <<"other_event", "t">>}

NextEvents ==
  \/ \E c \in OnCalls : On("h", c[1], "fa", c[2])
  \/ Once("h", Event, "fb", [tag |-> "t"])
  \/ \E c \in OffCalls : Off("h", c[1], c[2])
  \/ \E eventname \in TwoEvents : Emit("h", eventname, <<>>)
  \/ Invoke
  \/ HandlerReturn
  \/ HandlerThrow
  \/ EmitReturn

SpecEvents == InitEvents /\ [][NextEvents]_vars

\* SpecOnce: one host; register-once calls with options that carry
\* once = false.
OnceCallOptions ==
  {NoOptions, [once |-> FALSE],
   [once |-> FALSE, tag |-> "t", priority |-> 20, context |-> CtxObj]}

NextOnce ==
  \/ \E options \in {NoOptions, [once |-> TRUE]} : On("h", Event, "fa", options)
  \/ \E options \in OnceCallOptions : Once("h", Event, "fb", options)
  \/ Off("h", Event, "t")
  \/ Emit("h", Event, <<>>)
  \/ Invoke
  \/ HandlerReturn
  \/ HandlerThrow
  \/ EmitReturn

SpecOnce == Init /\ [][NextOnce]_vars

\* SpecInputs: one host under each storage configuration, the empty
\* string included; register calls with every kind of input (no options,
\* all four options, null, no callable, an inherited event name), and
\* deregister and dispatch calls for the inherited event name.
AllOptions == [tag |-> "t", priority |-> 20, context |-> CtxObj, once |-> TRUE]

InitInputs == InitWith({c \in [Caps -> {"_handlers", Null, ""}] : c["c1"] = "_handlers"})

NextInputs ==
  \/ \E options \in {NoOptions, AllOptions, NullOptions} : On("h", Event, "fa", options)
  \/ On("h", Event, Undefined, NoOptions)
  \/ On("h", "constructor", "fa", NoOptions)
  \/ Once("h", Event, "fb", NoOptions)
  \/ \E eventname \in {Event, "constructor"} : Off("h", eventname, "t")
  \/ \E eventname \in {Event, "constructor"} : Emit("h", eventname, <<>>)
  \/ Invoke
  \/ HandlerReturn
  \/ HandlerThrow
  \/ EmitReturn

SpecInputs == InitInputs /\ [][NextInputs]_vars

\* SpecReturns: one host; handlers that return one value or another, and
\* dispatches with and without an argument.
ReturnValues == {"a", "b"}

NextReturns ==
  \/ \E options \in {NoOptions, [priority |-> 20]} : On("h", Event, "fa", options)
  \/ \E args \in {<<>>, <<"x">>} : Emit("h", Event, args)
  \/ Invoke
  \/ \E value \in ReturnValues : Returned(value)
  \/ HandlerThrow
  \/ EmitReturn

SpecReturns == Init /\ [][NextReturns]_vars

\* SpecFactory: the factory called with every configuration over a few
\* names, equal names included.
ConfigNames == {Undefined, "on", "x", "y"}
Configs ==
  { c \in [{"on_prop", "once_prop", "off_prop", "emit_prop", "handlers_prop"}
             -> ConfigNames \cup {Null}] :
      \A k \in 1..4 : c[OpProps[k]] # Null }

NextFactory == \E config \in Configs : CaptainHook("c2", config)

SpecFactory == Init /\ [][NextFactory]_vars

\* SpecRegistering: one host; dispatches are started between handlers only,
\* and handlers register further handlers of any priority.
NextRegistering ==
  \/ \E options \in {NoOptions, [priority |-> 5], [priority |-> 20]} :
       On("h", Event, "fa", options)
  \/ Len(stack) = 0 /\ Emit("h", Event, <<>>)
  \/ Invoke
  \/ HandlerReturn
  \/ EmitReturn

SpecRegistering == Init /\ [][NextRegistering]_vars

\* SpecDeregistering: one host; records tagged t and u are registered
\* between dispatches, and handlers deregister by either tag.
NextDeregistering ==
  \/ \E options \in {[tag |-> "t"], [tag |-> "u"], [tag |-> "u", priority |-> 20]} :
       Len(stack) = 0 /\ On("h", Event, "fa", options)
  \/ \E tag \in {"t", "u"} : Off("h", Event, tag)
  \/ Len(stack) = 0 /\ Emit("h", Event, <<>>)
  \/ Invoke
  \/ HandlerReturn
  \/ EmitReturn

SpecDeregistering == Init /\ [][NextDeregistering]_vars

\* SpecNested: one host; lasting and one-shot records are registered
\* between dispatches, and handlers start dispatches of the same event.
NextNested ==
  \/ \E options \in {NoOptions, [priority |-> 20]} :
       Len(stack) = 0 /\ On("h", Event, "fa", options)
  \/ \E options \in {NoOptions, [priority |-> 20]} :
       Len(stack) = 0 /\ Once("h", Event, "fb", options)
  \/ Emit("h", Event, <<>>)
  \/ Invoke
  \/ HandlerReturn
  \/ EmitReturn

SpecNested == Init /\ [][NextNested]_vars

\* SpecSameTag: one host; one-shot records tagged t are registered between
\* dispatches, and a one-shot handler that is being invoked registers
\* lasting handlers under the same tag.
NextSameTag ==
  \/ \E options \in {[tag |-> "t"], [tag |-> "t", priority |-> 20]} :
       Len(stack) = 0 /\ Once("h", Event, "fb", options)
  \/ \E options \in {[tag |-> "t"], [tag |-> "t", priority |-> 20]} :
       /\ Len(stack) > 0
       /\ Top.cur.once
       /\ On("h", Event, "fa", options)
  \/ Emit("h", Event, <<>>)
  \/ Invoke
  \/ HandlerReturn
  \/ EmitReturn

SpecSameTag == Init /\ [][NextSameTag]_vars

\* SpecReplace: one host that replaces the function under the register
\* name by one of its own, and puts the register operation back.
NextReplace ==
  \/ On("h", Event, "fa", NoOptions)
  \/ \E options \in OnceCallOptions : Once("h", Event, "fb", options)
  \/ \E f \in {"AddEventHandler", "replacement"} : AssignOn("h", f)
  \/ Emit("h", Event, <<>>)
  \/ Invoke
  \/ HandlerReturn
  \/ EmitReturn

SpecReplace == Init /\ [][NextReplace]_vars

\* SpecSequential: one host; the emitter is called between dispatches only,
\* and every handler returns.  A dispatch is one synchronous call: once it
\* is called, forEach goes on to the next handler, a handler that was
\* invoked returns, and the dispatch returns after the last one.
NextSequential ==
  \/ \E options \in {NoOptions, [priority |-> 20], [tag |-> "t"]} :
       Len(stack) = 0 /\ On("h", Event, "fa", options)
  \/ Len(stack) = 0 /\ Once("h", Event, "fb", NoOptions)
  \/ Len(stack) = 0 /\ Off("h", Event, "t")
  \/ Len(stack) = 0 /\ Emit("h", Event, <<>>)
  \/ Invoke
  \/ HandlerReturn
  \/ EmitReturn

SpecSequential ==
  /\ Init
  /\ [][NextSequential]_vars
  /\ WF_vars(Invoke)
  /\ WF_vars(HandlerReturn)
  /\ WF_vars(EmitReturn)

\* SpecHeld: one host whose caller passes one options object of its own to
\* register and register-once calls.
HeldOptions == {NoOptions, [priority |-> 20], [tag |-> "t", once |-> FALSE]}

NextHeld ==
  \/ \E options \in HeldOptions : Hold(options)
  \/ OnHeld("h", Event, "fa")
  \/ OnceHeld("h", Event, "fb")
  \/ Emit("h", Event, <<>>)
  \/ Invoke
  \/ HandlerReturn
  \/ EmitReturn

SpecHeld == Init /\ [][NextHeld]_vars

\* ------------------------------------------------------------------ claims

Frames == {stack[k] : k \in 1..Len(stack)}

\* a dispatch that has invoked its last handler and is about to clean up and
\* return its retvals
Returning(f) == f.pc = "loop" /\ LoopDone(f)

Supplied(handler, name) == name \in DOMAIN handler.options

\* C1: in a dispatch whose handlers do not call the emitter, no handler is
\* invoked before a handler that was registered with a higher supplied
\* priority.
C1_DescendingSuppliedPriority ==
  \A f \in Frames : Flat(f) =>
    \A i, j \in 1..Len(f.calls) :
      (i < j /\ Supplied(f.calls[i].handler, "priority")
             /\ Supplied(f.calls[j].handler, "priority"))
      => f.calls[i].handler.options.priority >= f.calls[j].handler.options.priority

\* C2: a record registered as one-shot is invoked at most once, whatever the
\* other handlers of its event do (the one-shot handlers themselves only
\* return).
C2_OnceInvokedOnce ==
  (\A f \in Frames : \A k \in 1..Len(f.calls) :
     f.calls[k].handler.once => f.calls[k].quiet)
  => \A f \in Frames : \A k \in 1..Len(f.calls) :
       f.calls[k].handler.once => ncalls[f.calls[k].handler.id] <= 1

\* C5 as stated: the sequence a dispatch returns holds the handlers' return
\* values in invocation order, and is as long as the list was when the
\* dispatch was called.
C5_LengthIsCountAtCall ==
  \A f \in Frames : Returning(f) =>
    /\ Len(f.retvals) = f.len
    /\ \A k \in 1..Len(f.retvals) : f.retvals[k] = Ret(f.calls[k].handler.callable)

\* C5 amended: the sequence holds the return value of every handler the
\* dispatch invoked, in invocation order; it is never longer than the list
\* was when the dispatch was called, and as long when no record was removed
\* from the list while the dispatch ran.
C5_ResultsInInvocationOrder ==
  \A f \in Frames :
    /\ Len(f.retvals) <= Len(f.calls)
    /\ \A k \in 1..Len(f.retvals) : f.retvals[k] = Ret(f.calls[k].handler.callable)
    /\ Returning(f) =>
         /\ Len(f.retvals) = Len(f.calls)
         /\ Len(f.retvals) <= f.len
         /\ ~f.shrunk => Len(f.retvals) = f.len

\* a dispatch about to return two different values, one of whose handlers
\* registered a record meanwhile
C5_Witness ==
  /\ Len(stack) = 1
  /\ Returning(Top)
  /\ ~Flat(Top) /\ ~Top.shrunk
  /\ Len(Top.retvals) = 2
  /\ Top.retvals[1] # Top.retvals[2]
  /\ Len(ListOf(Top)) = 3

\* C10: every handler list is sorted by stored priority, descending, in
\* every state, those between two handler invocations included.
Sorted(list) ==
  \A i, j \in 1..Len(list) : i < j => list[i].priority >= list[j].priority

C10_ListsSorted ==
  \A l \in Locs : \A eventname \in DOMAIN storage[l].lists :
    Sorted(storage[l].lists[eventname])

\* a handler has just registered a third record, of the highest priority,
\* while its dispatch is running
C10_Witness ==
  /\ Len(stack) > 0
  /\ Top.pc = "call"
  /\ last.op = "on"
  /\ Len(ListOf(Top)) = 3
  /\ ListOf(Top)[1].id = 3
  /\ ListOf(Top)[1].priority > ListOf(Top)[2].priority
  /\ ListOf(Top)[2].priority > ListOf(Top)[3].priority

\* the list a dispatch through this would iterate, empty when it has none
Visible(st, this) ==
  IF ActiveLoc(this) = NoLoc THEN <<>>
  ELSE IF ~HasList(st[ActiveLoc(this)], Event) THEN <<>>
  ELSE st[ActiveLoc(this)].lists[Event]

\* after is before without its first record tagged tag
RemovedFirst(before, after, tag) ==
  \E i \in 1..Len(before) :
    /\ before[i].tag = tag
    /\ \A j \in 1..(i - 1) : before[j].tag # tag
    /\ Len(after) = Len(before) - 1
    /\ \A k \in 1..(i - 1) : after[k] = before[k]
    /\ \A k \in i..Len(after) : after[k] = before[k + 1]

Carried(list, tag) == \E i \in 1..Len(list) : list[i].tag = tag

\* C3 as stated: deregister with a tag that a record of the list carries
\* removes the first record with that tag and no other.
C3_RemovesFirstTagged ==
  (last.op = "off" /\ Carried(Visible(last.before, last.this), last.tag))
  => RemovedFirst(Visible(last.before, last.this), Visible(storage, last.this), last.tag)

\* C3 amended: deregister with a non-empty tag that a record of the list
\* carries removes the first record with that tag and no other; with the
\* empty tag it removes nothing.
C3_RemovesFirstNonEmptyTagged ==
  /\ (last.op = "off" /\ Truthy(last.tag)
                      /\ Carried(Visible(last.before, last.this), last.tag))
     => RemovedFirst(Visible(last.before, last.this), Visible(storage, last.this), last.tag)
  /\ (last.op = "off" /\ ~Truthy(last.tag)) => storage = last.before

\* a deregister call has just removed the second of three records, the
\* first of the two that carry its tag
C3_Witness ==
  /\ last.op = "off"
  /\ last.tag = "t"
  /\ Len(Visible(last.before, "h")) = 3
  /\ Visible(last.before, "h")[1].tag # "t"
  /\ Visible(last.before, "h")[2].tag = "t"
  /\ Visible(last.before, "h")[3].tag = "t"
  /\ Len(Visible(storage, "h")) = 2
  /\ Visible(storage, "h")[2].tag = "t"

AllCalls == UNION {{f.calls[k] : k \in 1..Len(f.calls)} : f \in Frames}

C6_ArgumentsForwarded ==
  \A f \in Frames : \A k \in 1..Len(f.calls) :
    /\ Len(f.calls[k].args) = Len(f.args)
    /\ \A n \in 1..Len(f.args) : f.calls[k].args[n] = f.args[n]

\* a dispatch nested in a dispatch, with other arguments, each having
\* invoked handlers
C6_Witness ==
  /\ Len(stack) = 2
  /\ stack[1].args = <<"x", "y">>
  /\ stack[2].args = <<"y", "x">>
  /\ Len(stack[1].calls) = 2
  /\ Len(stack[2].calls) = 2

\* C7: with private storage, a record registered through one host is in the
\* list of every host of the capability, all hosts see one list, and a
\* dispatch through any of them invokes the records of that list in
\* descending priority.
C7_PrivateStoreShared ==
  /\ last.op = "on" =>
       \A this \in {"i1", "i2"} :
         \E k \in 1..Len(Visible(storage, this)) :
           /\ Visible(storage, this)[k].id = nregs
           /\ Visible(storage, this)[k].by = last.this
  /\ Visible(storage, "i1") = Visible(storage, "i2")
  /\ \A f \in Frames : (Returning(f) /\ Flat(f)) =>
       /\ Len(f.calls) = Len(f.start)
       /\ \A k \in 1..Len(f.calls) : f.calls[k].handler = f.start[k]
       /\ Sorted(f.start)

\* a dispatch through i2 has invoked a handler of i1 between two of its own
C7_Witness ==
  /\ Len(stack) = 1
  /\ Returning(Top) /\ Flat(Top)
  /\ Top.this = "i2"
  /\ Len(Top.calls) = 3
  /\ Top.calls[1].handler.by = "i2"
  /\ Top.calls[2].handler.by = "i1"
  /\ Top.calls[3].handler.by = "i2"
  /\ Top.calls[1].handler.priority > Top.calls[3].handler.priority

\* C8: a dispatch through a host invokes only handlers registered through
\* that host, and a deregister call through a host leaves the other host's
\* list alone, when each host has a capability of its own.
C8_FactoriesIsolated ==
  /\ \A f \in Frames : \A k \in 1..Len(f.calls) : f.calls[k].handler.by = f.this
  /\ \A this \in Hosts : \A k \in 1..Len(Visible(storage, this)) :
       Visible(storage, this)[k].by = this
  /\ last.op = "off" =>
       \A this \in Hosts \ {last.this} :
         Visible(storage, this) = Visible(last.before, this)

\* both capabilities have private storage, both hosts have a record, and a
\* dispatch through h has invoked its own
C8_Witness ==
  /\ handlers_prop["c1"] = Null /\ handlers_prop["c2"] = Null
  /\ Len(stack) = 1
  /\ Top.this = "h"
  /\ Returning(Top)
  /\ Len(Top.calls) = 2
  /\ Len(Visible(storage, "i1")) = 1

\* C9: with public storage, a register call leaves the store an own
\* property of its receiver, and a dispatch through an object invokes only
\* handlers registered through that object.
C9_NoStoreAlongPrototypeChain ==
  /\ last.op = "on" => storage[last.this].exists
  /\ \A f \in Frames : \A k \in 1..Len(f.calls) : f.calls[k].handler.by = f.this

\* the store a call through this resolves in the stores st, NoLoc when it
\* reads undefined
ActiveLocIn(st, this) ==
  IF IsPublic(this) THEN Lookup(st, this)
  ELSE IF st[CapOf(this)].exists THEN CapOf(this) ELSE NoLoc

\* this has no store, or its store has no list for the event
NoListFor(st, this, eventname) ==
  IF ActiveLocIn(st, this) = NoLoc THEN TRUE
  ELSE ~HasList(st[ActiveLocIn(st, this)], eventname)

ListFor(st, this, eventname) ==
  IF NoListFor(st, this, eventname) THEN <<>>
  ELSE st[ActiveLocIn(st, this)].lists[eventname]

\* C11: a dispatch of an event for which the receiver has no store, or a
\* store without a list, returns the empty sequence, throws nothing, starts
\* no handler invocation and leaves the stores as they were.
C11_EmptyDispatch ==
  (last.op = "emit" /\ NoListFor(last.before, last.this, last.eventname))
  => /\ result = [status |-> "returned", retvals |-> <<>>]
     /\ ~last.raised
     /\ Len(stack) = last.depth
     /\ storage = last.before

\* the handlers a dispatch has invoked are the first records of the list it
\* was called on, in list order, and all of them when it is about to return
FollowsStart(f) ==
  /\ Len(f.calls) <= Len(f.start)
  /\ \A k \in 1..Len(f.calls) : f.calls[k].handler = f.start[k]
  /\ Returning(f) => Len(f.calls) = Len(f.start)

\* C12: a deregister call with a tag that no record of the list carries
\* leaves every store as it was, and a dispatch that follows it runs on the
\* list as it was before the call and invokes its records in list order
\* (as long as its handlers do not call the emitter).
C12_UnknownTagNoOp ==
  /\ []((last.op = "off" /\ ~Carried(Visible(last.before, last.this), last.tag))
        => storage = last.before)
  /\ [][(last.op = "off" /\ ~Carried(Visible(last.before, last.this), last.tag)
                         /\ Visible(last.before, last.this) # <<>>
                         /\ last'.op = "emit" /\ last'.this = last.this)
        => /\ Len(stack') = Len(stack) + 1
           /\ stack'[Len(stack')].start = Visible(last.before, last.this)]_vars
  /\ [](\A f \in Frames : Flat(f) => FollowsStart(f))

\* a deregister call with tag t has just returned, on a list of two records
\* neither of which carries t
C12_Witness ==
  /\ last.op = "off"
  /\ last.tag = "t"
  /\ Len(Visible(last.before, "h")) = 2
  /\ ~Carried(Visible(last.before, "h"), "t")
  /\ Len(Visible(storage, "h")) = 2

\* C13: a deregister call without a tag (or with a falsy one), for an event
\* without a list, or through a receiver without a store, throws nothing
\* and leaves every store as it was.
C13_DeregisterNoOp ==
  (last.op = "off" /\ (~Truthy(last.tag)
                        \/ NoListFor(last.before, last.this, last.eventname)))
  => /\ ~last.raised
     /\ storage = last.before
     /\ Len(stack) = last.depth

RecordsAt(l) ==
  UNION {{storage[l].lists[e][k] : k \in 1..Len(storage[l].lists[e])} :
           e \in DOMAIN storage[l].lists}

AllRecords == UNION {RecordsAt(l) : l \in Locs}

\* registered without a priority option, or with priority 0
DefaultPriority(handler) ==
  IF Supplied(handler, "priority") THEN handler.options.priority = 0 ELSE TRUE

WithOnceSet(options) ==
  [name \in DOMAIN options \cup {"once"} |->
     IF name = "once" THEN TRUE ELSE options[name]]

\* C16: every register-once call is a step of the register operation with
\* the same event, handler function and options, the once option set to
\* true, also when the options say once = false; the record it leaves is
\* one-shot and has the tag, priority and context that register derives
\* from these options.
C16_OnceIsRegisterWithOnce ==
  /\ [][\A options \in OnceCallOptions :
          Once("h", Event, "fb", options)
          => On("h", Event, "fb", WithOnceSet(options))]_vars
  /\ [](\A handler \in AllRecords : handler.callable = "fb" =>
          /\ handler.once = TRUE
          /\ handler.tag = Opt(handler.options, "tag")
          /\ handler.priority = HandlerPriority(handler.options)
          /\ handler.context = HandlerContext(handler.options, handler.by))

\* a register-once call whose options said once = false, tag t, priority
\* 20 and a context has just left its record, one-shot, before an older
\* record
C16_Witness ==
  /\ last.op = "on"
  /\ Len(Visible(storage, "h")) = 2
  /\ Visible(storage, "h")[1].id = 2
  /\ Visible(storage, "h")[1].callable = "fb"
  /\ Visible(storage, "h")[1].once = TRUE
  /\ Visible(storage, "h")[1].tag = "t"
  /\ Visible(storage, "h")[1].priority = 20
  /\ Visible(storage, "h")[1].context = CtxObj
  /\ Visible(storage, "h")[2].once = FALSE

NoOneShot(list) == \A k \in 1..Len(list) : ~list[k].once

\* C17: a dispatch on a list without one-shot records whose handlers do not
\* call the emitter invokes the records of the list in list order and
\* returns with every store as it was; a dispatch made right after it runs
\* on the same list, so it invokes the same handlers in the same order.
C17_DispatchKeepsList ==
  /\ [][(Len(stack) > 0 /\ last'.op = "emitreturn"
                         /\ Flat(Top) /\ NoOneShot(Top.start))
        => /\ FollowsStart(Top)
           /\ storage' = storage
           /\ storage'[Top.loc].lists[Top.eventname] = Top.start]_vars
  /\ [][(last.op = "emitreturn" /\ NoOneShot(Visible(last.before, last.this))
                               /\ last'.op = "emit" /\ last'.this = last.this)
        => /\ Len(stack') = Len(stack) + 1
           /\ stack'[Len(stack')].start = Visible(last.before, last.this)]_vars
  /\ [](\A f \in Frames : (Flat(f) /\ NoOneShot(f.start)) => FollowsStart(f))

\* the second of two dispatches has invoked the two records the first one
\* invoked, the one registered last first
C17_Witness ==
  /\ Len(stack) = 1
  /\ nemits = 2
  /\ Flat(Top) /\ Returning(Top)
  /\ NoOneShot(Top.start)
  /\ Len(Top.calls) = 2
  /\ Top.calls[1].handler.id = 2
  /\ Top.calls[2].handler.id = 1
  /\ ncalls[1] = 2 /\ ncalls[2] = 2

\* C18: with private storage, no host of the capability and no prototype
\* of a host ever holds a store: whatever calls are made, the objects stay
\* as they were and the records are in the store of the capability alone.
C18_PrivateLeavesHostsAlone ==
  \A o \in Objects : handlers_prop[CapOf(o)] = Null =>
    /\ storage[o] = NoStore
    /\ \A handler \in AllRecords : handler.by = o => handler \in RecordsAt(CapOf(o))

\* three records were registered through i1 and i2, a dispatch has removed
\* the one-shot one, and the two that are left are in the private store
C18_Witness ==
  /\ last.op = "emitreturn"
  /\ nregs = 3
  /\ Len(storage["c1"].lists[Event]) = 2
  /\ storage["c1"].lists[Event][1].by # storage["c1"].lists[Event][2].by
  /\ \A o \in {"P", "i1", "i2"} : storage[o] = NoStore

\* C19: with public storage, an object gets a store only through a register
\* call made on that object, and a register call leaves its receiver with a
\* store of its own; dispatch and deregister calls create no store, and a
\* register call on an instance creates none on its prototype.
C19_StoreCreatedByFirstRegister ==
  /\ \A o \in Objects : (storage[o].exists /\ ~last.before[o].exists)
                          => (last.op = "on" /\ last.this = o)
  /\ (last.op = "on" /\ handlers_prop[CapOf(last.this)] # Null)
     => storage[last.this].exists

\* C20: a deregister call removes no record whose tag is not the tag of
\* the call, and no record that has no tag, from any list.
C20_RemovalNeedsTag ==
  last.op = "off" =>
    \A l \in Locs : \A e \in DOMAIN last.before[l].lists :
      \A k \in 1..Len(last.before[l].lists[e]) :
        (last.before[l].lists[e][k].tag # last.tag
           \/ last.before[l].lists[e][k].tag = Undefined)
        => /\ e \in DOMAIN storage[l].lists
           /\ \E j \in 1..Len(storage[l].lists[e]) :
                storage[l].lists[e][j] = last.before[l].lists[e][k]

\* a deregister call with tag t has just removed the record tagged t from
\* a list that also holds a record tagged u and a record without a tag
C20_Witness ==
  /\ last.op = "off"
  /\ last.tag = "t"
  /\ Len(ListFor(last.before, "h", Event)) = 3
  /\ Len(ListFor(storage, "h", Event)) = 2
  /\ Carried(ListFor(storage, "h", Event), "u")
  /\ Carried(ListFor(storage, "h", Event), Undefined)
  /\ ~Carried(ListFor(storage, "h", Event), "t")

\* C21: a handler registered without a context option is invoked with the
\* receiver of the dispatch call as its receiver.
C21_ReceiverIsEmitter ==
  \A f \in Frames : \A k \in 1..Len(f.calls) :
    ~Supplied(f.calls[k].handler, "context") => f.calls[k].this = f.this

\* C22: no register call throws, whatever the event name, the callable,
\* the options argument and the storage configuration are; a record whose
\* callable is not a function contributes no return value to a dispatch.
C22_RegisterNeverRaises ==
  /\ last.op = "on" => ~last.raised
  /\ \A f \in Frames : \A k \in 1..Len(f.retvals) :
       IsFunction(f.calls[k].handler.callable)

\* C23: the receiver and the arguments of an invocation are those of the
\* record and of the dispatch call: two dispatches through the same object
\* with the same arguments invoke a record with the same receiver and the
\* same arguments, whatever the handlers invoked before it returned, and
\* the arguments of an invocation are the arguments of the dispatch call
\* and nothing else.
C23_InvocationIndependentOfResults ==
  /\ \A f, g \in Frames :
       \A i \in 1..Len(f.calls) : \A j \in 1..Len(g.calls) :
         (f.calls[i].handler = g.calls[j].handler /\ f.this = g.this /\ f.args = g.args)
         => /\ f.calls[i].this = g.calls[j].this
            /\ f.calls[i].args = g.calls[j].args
  /\ \A f \in Frames : \A k \in 1..Len(f.calls) : f.calls[k].args = f.args

\* a dispatch and the dispatch nested in it, called with the same argument,
\* are both invoking the second record of the list, after the first record
\* returned a to the one and b to the other
C23_Witness ==
  /\ Len(stack) = 2
  /\ stack[1].args = <<"x">> /\ stack[2].args = <<"x">>
  /\ stack[1].retvals = <<"a">> /\ stack[2].retvals = <<"b">>
  /\ stack[1].pc = "call" /\ stack[2].pc = "call"
  /\ stack[1].cur = stack[2].cur
  /\ stack[1].calls[2].this = stack[2].calls[2].this
  /\ stack[1].calls[2].args = stack[2].calls[2].args

OpNames(config) == {Configured(config, OpProps[k]) : k \in 1..4}

HoldsOperations(object, config) ==
  \A k \in 1..4 :
    /\ Configured(config, OpProps[k]) \in DOMAIN object
    /\ object[Configured(config, OpProps[k])] = Operation(OpProps[k])

TimesInvoked(f, handler) ==
  Cardinality({j \in 1..Len(f.calls) : f.calls[j].handler.id = handler.id})

InList(list, handler) == \E j \in 1..Len(list) : list[j].id = handler.id

\* C25: a dispatch that has finished its invocations has invoked every
\* record that was in the list when it started exactly once, also when
\* handlers registered further handlers of the event meanwhile.
C25_StartRecordsInvokedOnce ==
  \A f \in Frames : Returning(f) =>
    \A k \in 1..Len(f.start) : TimesInvoked(f, f.start[k]) = 1

\* C26: a dispatch that has finished its invocations, during which
\* handlers deregistered records, has invoked every record that was in the
\* list when it started and is still registered.
C26_DeregisterSkipsNone ==
  \A f \in Frames : Returning(f) =>
    \A k \in 1..Len(f.start) :
      InList(ListOf(f), f.start[k]) => TimesInvoked(f, f.start[k]) >= 1

\* C27: a dispatch inside whose handlers dispatches of the same event ran
\* has, when it has finished its invocations, invoked every record that was
\* in the list when it started, and holds one result for each of them.
C27_NestedIsOrdinaryCall ==
  \A f \in Frames : Returning(f) =>
    /\ Len(f.retvals) = Len(f.start)
    /\ \A k \in 1..Len(f.start) : TimesInvoked(f, f.start[k]) >= 1

\* C28: while a dispatch invokes a handler, no one-shot record that it
\* invoked before is in the list, and no dispatch started from inside that
\* handler invokes such a record.
C28_OnceRemovedAfterInvocation ==
  \A m \in 1..Len(stack) :
    stack[m].pc = "call" =>
      \A k \in 1..(Len(stack[m].calls) - 1) :
        stack[m].calls[k].handler.once =>
          /\ ~InList(ListOf(stack[m]), stack[m].calls[k].handler)
          /\ \A n \in (m + 1)..Len(stack) :
               TimesInvoked(stack[n], stack[m].calls[k].handler) = 0

\* C29: right after a dispatch of an event has returned normally, the list
\* of that event holds no record with the once flag set, whatever was
\* registered or deregistered while the dispatch ran.
C29_NoOneShotAfterDispatch ==
  last.op = "emitreturn" => NoOneShot(ListFor(storage, last.this, last.eventname))

\* the only dispatch made has returned; it was called on one one-shot
\* record and its handler registered a second one, which the dispatch did
\* not invoke; the list is empty now
C29_Witness ==
  /\ last.op = "emitreturn"
  /\ last.depth = 1
  /\ nemits = 1
  /\ nregs = 2
  /\ Len(ListFor(last.before, last.this, last.eventname)) = 2
  /\ \A k \in 1..2 : ListFor(last.before, last.this, last.eventname)[k].once
  /\ ncalls[1] = 1
  /\ ncalls[2] = 0
  /\ ListFor(storage, last.this, last.eventname) = <<>>

\* C30: the one-shot records that are in the list when a dispatch has
\* finished its invocations, which are the ones its cleanup removes, have
\* all been invoked by that dispatch.
C30_CleanupRemovesInvokedOnly ==
  \A f \in Frames : Returning(f) =>
    \A k \in 1..Len(ListOf(f)) :
      ListOf(f)[k].once => TimesInvoked(f, ListOf(f)[k]) >= 1



\* C31: right after a dispatch has returned, every one-shot record that was
\* in the list before the cleanup is gone and every other record, each of
\* which a one-shot handler registered under its own tag while it was being
\* invoked, is still in the list.
C31_CleanupByOnceFlag ==
  last.op = "emitreturn" =>
    LET before == ListFor(last.before, last.this, last.eventname)
        after == ListFor(storage, last.this, last.eventname)
    IN /\ \A k \in 1..Len(before) :
            /\ before[k].tag = "t"
            /\ before[k].once => ~InList(after, before[k])
            /\ ~before[k].once => InList(after, before[k])
       /\ after = SelectSeq(before, LAMBDA h : ~h.once)

\* the only dispatch made has returned: its one-shot handler, invoked once,
\* registered a lasting handler under its tag, which alone is left
C31_Witness ==
  /\ last.op = "emitreturn"
  /\ nemits = 1
  /\ nregs = 2
  /\ ncalls[1] = 1
  /\ Len(ListFor(last.before, last.this, last.eventname)) = 2
  /\ Len(ListFor(storage, last.this, last.eventname)) = 1
  /\ ListFor(storage, last.this, last.eventname)[1].id = 2
  /\ ListFor(storage, last.this, last.eventname)[1].tag = "t"
  /\ ~ListFor(storage, last.this, last.eventname)[1].once

\* C32: a register-once call is a step of whatever function is under the
\* register name on its receiver, handed the same event and handler and
\* the options with once set to true: the register operation when the host
\* has left it there, else the host's function, and then no store changes.
C32_OnceDelegates ==
  /\ [][\A options \in OnceCallOptions :
          Once("h", Event, "fb", options)
          => IF on_slot["h"] = "AddEventHandler"
             THEN On("h", Event, "fb", WithOnceSet(options))
             ELSE /\ storage' = storage
                  /\ last'.op = "replacement"
                  /\ last'.this = "h"
                  /\ last'.eventname = Event
                  /\ last'.callable = "fb"
                  /\ last'.options = WithOnceSet(options)]_vars
  /\ [](last.op = "replacement" =>
          /\ last.options.once = TRUE
          /\ storage = last.before)

\* the host's function has just been called by register-once with the
\* caller's options and once = true; the list holds the one record that
\* was registered before the function was replaced
C32_Witness ==
  /\ last.op = "replacement"
  /\ on_slot["h"] = "replacement"
  /\ last.callable = "fb"
  /\ last.options = [once |-> TRUE, tag |-> "t", priority |-> 20, context |-> CtxObj]
  /\ nregs = 2
  /\ Len(Visible(storage, "h")) = 1
  /\ Visible(storage, "h")[1].callable = "fa"

\* C33: whatever the storage specifier is, a register call through a host
\* with a function and without options does not throw and adds its record
\* to the list that the dispatch through that host iterates.
C33_EverySpecifierWorks ==
  [][On("h", Event, "fa", NoOptions)
     => /\ ~last'.raised
        /\ Len(ListFor(storage', "h", Event)) = Len(ListFor(storage, "h", Event)) + 1]_vars

\* the lists of the event in the stores s and t are the same: at every
\* place both have none, or both have the same records in the same order
SameLists(s, t, eventname) ==
  \A l \in Locs :
    /\ HasList(s[l], eventname) <=> HasList(t[l], eventname)
    /\ HasList(s[l], eventname) => s[l].lists[eventname] = t[l].lists[eventname]

\* C34: every step of register, register-once, deregister and dispatch for
\* one event name (the call, each invocation and return of a handler, the
\* cleanup) leaves the lists of every other event name as they were; so
\* does a whole dispatch whose handlers do not call the emitter.
C34_OtherEventsUntouched ==
  \A eventname \in TwoEvents \ {last.eventname} :
    SameLists(last.before, storage, eventname)

\* a dispatch of the other event has just cleaned up and returned while
\* the list of the first event holds a one-shot record, which is still there
C34_Witness ==
  /\ last.op = "emitreturn"
  /\ last.eventname = "other_event"
  /\ last.depth = 1
  /\ Len(ListFor(last.before, "h", "other_event")) >= 1
  /\ Len(ListFor(storage, "h", Event)) = 2
  /\ \E k \in 1..2 : ListFor(storage, "h", Event)[k].once

\* C35: a dispatch whose handlers return and do not call the emitter
\* invokes a handler only when every handler it invoked before has
\* returned, has made exactly as many invocations as the list had records
\* when it was called once its invocations are done, returns that many
\* results, and does return.
C35_TerminatesAfterCount ==
  /\ [](\A f \in Frames :
          /\ Len(f.calls) <= f.len
          /\ f.len = Len(f.start)
          /\ f.pc = "call" => Len(f.retvals) = Len(f.calls) - 1
          /\ f.pc = "loop" => Len(f.retvals) = Len(f.calls)
          /\ Returning(f) => Len(f.calls) = f.len)
  /\ [](last.op = "emitreturn" =>
          Len(result.retvals) = Len(ListFor(last.before, last.this, last.eventname)))
  /\ (Len(stack) > 0) ~> (Len(stack) = 0)

\* a dispatch called on three records has invoked the three of them, each
\* once, and is about to return
C35_Witness ==
  /\ Len(stack) = 1
  /\ Returning(Top)
  /\ Top.len = 3
  /\ Len(Top.calls) = 3
  /\ Len(Top.retvals) = 3
  /\ \A id \in 1..3 : ncalls[id] = 1

\* records of equal stored priority stand in the order of their registration
TiesInRegistrationOrder(list) ==
  \A i, j \in 1..Len(list) :
    (i < j /\ list[i].priority = list[j].priority) => list[i].id < list[j].id

SaysOnce(options) == "once" \in DOMAIN options /\ options.once = TRUE

\* C37: once a register-once call was made with the caller's options
\* object, that object has once = true; a record has the once flag that
\* the options had when it was registered, whatever the object has become
\* since, so the records registered with it before keep their flag; and
\* a plain register call made with the object after the register-once call
\* leaves a one-shot record.
C37_OnceWritesCallersOptions ==
  /\ (\E b \in AllRecords : b.callable = "fb") => SaysOnce(held)
  /\ \A r \in AllRecords :
       /\ r.once = SaysOnce(r.options)
       /\ r.callable = "fb" => r.once
  /\ \A a, b \in AllRecords :
       (a.callable = "fa" /\ b.callable = "fb" /\ a.id > b.id) => a.once
  /\ (last.op = "on" /\ ~last.raised /\ SaysOnce(held)) =>
       \E r \in AllRecords : r.id = nregs /\ r.once

\* the caller registered with its options object, then registered once
\* with it, then registered with it again: the first record is lasting,
\* the third, left by a plain register call, is one-shot
C37_Witness ==
  /\ last.op = "on"
  /\ nregs = 3
  /\ held = [priority |-> 20, once |-> TRUE]
  /\ \E a, b, c \in AllRecords :
       /\ a.id = 1 /\ a.callable = "fa" /\ ~a.once
       /\ b.id = 2 /\ b.callable = "fb" /\ b.once
       /\ c.id = 3 /\ c.callable = "fa" /\ c.once

====
